---- MODULE Spec2Model ----
(***************************************************************************)
(* Termion: a terminal emulator backend.  The model covers the escape      *)
(* sequence decoder (OutputBuffer / CsiParser), the cursor tracking and    *)
(* the scrollback buffer driven by the read half of Termion::update, and   *)
(* the write loops of its history panel and typed input.                   *)
(* A Rust panic aborts the process: it is recorded in `panic` and no       *)
(* further step is taken.                                                  *)
(***************************************************************************)
EXTENDS Integers, Sequences, FiniteSets, TLC

\* ------------------------------------------------------------------ bytes
ESC == 27        \* b'\x1b'
LBRACKET == 91   \* b'['
SEMI == 59       \* b';'
NL == 10         \* b'\n'
BYTE_H == 72     \* b'H'
BYTE_J == 74     \* b'J'
DIGIT_0 == 48    \* b'0'
DIGIT_9 == 57    \* b'9'

\* ----------------------------------------------------------------- bounds
\* longest chunk one read returns in the model (the code reads up to 4096)
MaxChunk == 3
\* cap on the bytes received in one run (bounds the scrollback)
MaxBuf == 4
\* longest digit string of a CSI parameter in the decoder harness
MaxDigits == 2
\* longest command or typed text handed to a write loop
MaxWrite == 4

\* the bytes a read may deliver: one of each class the decoder tells apart
Bytes == {ESC, LBRACKET, SEMI, 50, BYTE_H, BYTE_J, NL}

RECURSIVE SeqsUpTo(_, _)
SeqsUpTo(S, n) ==
    IF n = 0 THEN {<<>>}
    ELSE LET shorter == SeqsUpTo(S, n - 1)
         IN  shorter \cup {Append(s, b) : s \in shorter, b \in S}

\* the chunks of at most n bytes a successful read returns: Ok(0) is end of
\* file, so a chunk handed to the decoder is never empty
Chunks(n) == SeqsUpTo(Bytes, n) \ {<<>>}

Min(a, b) == IF a <= b THEN a ELSE b

\* ------------------------------------------------------------ Option<usize>
None == <<>>
Some(v) == <<v>>
unwrap_or(opt, default) == IF opt = None THEN default ELSE opt[1]

\* ---------------------------------------------------------- CSI parameters
is_ascii_digit(b) == b >= DIGIT_0 /\ b <= DIGIT_9

\* usize::MAX = 18446744073709551615 as decimal digits
UsizeMaxDigits == <<1,8,4,4,6,7,4,4,0,7,3,7,0,9,5,5,1,6,1,5>>

RECURSIVE StripZeros(_)
StripZeros(buf) ==
    IF buf # <<>> /\ buf[1] = DIGIT_0 THEN StripZeros(Tail(buf)) ELSE buf

RECURSIVE DigitsGreater(_, _)
\* lexicographic > of two digit strings of the same length
DigitsGreater(a, b) ==
    IF a = <<>> THEN FALSE
    ELSE IF a[1] - DIGIT_0 # b[1] THEN a[1] - DIGIT_0 > b[1]
    ELSE DigitsGreater(Tail(a), Tail(b))

\* str::parse::<usize> fails (and expect() panics) when the value exceeds usize::MAX
ParseOverflows(buf) ==
    LET d == StripZeros(buf)
    IN  \/ Len(d) > Len(UsizeMaxDigits)
        \/ Len(d) = Len(UsizeMaxDigits) /\ DigitsGreater(d, UsizeMaxDigits)

RECURSIVE ParseUsize(_)
\* the decimal value of a string of ASCII digits
ParseUsize(buf) ==
    IF buf = <<>> THEN 0
    ELSE 10 * ParseUsize(SubSeq(buf, 1, Len(buf) - 1)) + (buf[Len(buf)] - DIGIT_0)

\* fn accumulate_csi_buf: None for an empty buffer, else Some(parsed value);
\* result is [val, panic]
accumulate_csi_buf(buf) ==
    IF buf = <<>> THEN [val |-> None, panic |-> "none"]
    ELSE IF ParseOverflows(buf) THEN [val |-> None, panic |-> "parse"]
    ELSE [val |-> Some(ParseUsize(buf)), panic |-> "none"]

is_csi_terminator(b) ==
    b \in {65, 66, 67, 68, 69, 70, 71, BYTE_H, BYTE_J, 75, 83, 84, 102}

\* ---------------------------------------------------------------- CsiParser
StateN(buf) == [tag |-> "N", buf |-> buf]
StateM(buf) == [tag |-> "M", buf |-> buf]
Finished(b) == [tag |-> "Finished", term |-> b]

CsiParserNew == [state |-> StateN(<<>>), n |-> None, m |-> None]

\* CsiParser::push; result is [parser, panic]
CsiParserPush(parser, b) ==
    LET st == parser.state
        ok(p) == [parser |-> p, panic |-> "none"]
        abort(why) == [parser |-> parser, panic |-> why]
    IN  IF st.tag = "Finished" THEN abort("finished")
        ELSE IF b = BYTE_H THEN ok([parser EXCEPT !.state = Finished(BYTE_H)])
        ELSE IF st.tag = "N" THEN
            IF is_csi_terminator(b) THEN ok([parser EXCEPT !.state = Finished(b)])
            ELSE IF b = SEMI THEN
                LET acc == accumulate_csi_buf(st.buf)
                IN  IF acc.panic # "none" THEN abort(acc.panic)
                    ELSE ok([parser EXCEPT !.n = acc.val, !.state = StateM(<<>>)])
            ELSE IF is_ascii_digit(b) THEN
                ok([parser EXCEPT !.state = StateN(Append(st.buf, b))])
            ELSE abort("csi_n")
        ELSE IF st.tag = "M" THEN
            IF is_csi_terminator(b) THEN
                LET acc == accumulate_csi_buf(st.buf)
                IN  IF acc.panic # "none" THEN abort(acc.panic)
                    ELSE ok([parser EXCEPT !.m = acc.val, !.state = Finished(b)])
            ELSE IF is_ascii_digit(b) THEN
                ok([parser EXCEPT !.state = StateM(Append(st.buf, b))])
            ELSE abort("csi_m")
        ELSE abort("invalid")

\* ------------------------------------------------------------- OutputBuffer
Empty == [tag |-> "Empty"]
Escape == [tag |-> "Escape"]
Csi(parser) == [tag |-> "Csi", parser |-> parser]

Data(bytes) == [type |-> "Data", bytes |-> bytes]
SetCursorPos(x, y) == [type |-> "SetCursorPos", x |-> x, y |-> y]

\* mutant: the omitted parameters default to 0
CursorEventZeroDefault(parser) ==
    [type |-> "SetCursorPos", x |-> unwrap_or(parser.n, 0), y |-> unwrap_or(parser.m, 0)]

\* the event of a parser that finished on 'H' (main.rs line 274)
CursorEvent(parser) == SetCursorPos(unwrap_or(parser.n, 1), unwrap_or(parser.m, 1))

\* one iteration of the loop of OutputBuffer::push over
\* acc = [current_state, output, data_output, panic]
PushByte(acc, b) ==
    LET cs == acc.current_state
    IN  IF acc.panic # "none" THEN acc
        ELSE IF cs.tag = "Empty" THEN
            IF b = ESC THEN [acc EXCEPT !.current_state = Escape]
            ELSE [acc EXCEPT !.data_output = Append(@, b)]
        ELSE IF cs.tag = "Escape" THEN
            LET flushed == [acc EXCEPT !.output = Append(@, Data(acc.data_output)),
                                       !.data_output = <<>>]
            IN  IF b = LBRACKET
                THEN [flushed EXCEPT !.current_state = Csi(CsiParserNew)]
                ELSE [flushed EXCEPT !.panic = "escape"]
        ELSE
            LET r == CsiParserPush(cs.parser, b)
            IN  IF r.panic # "none" THEN [acc EXCEPT !.panic = r.panic]
                ELSE IF r.parser.state = Finished(BYTE_H)
                THEN [acc EXCEPT !.output = Append(@, CursorEvent(r.parser)),
                                 !.current_state = Empty]
                ELSE [acc EXCEPT !.current_state = Csi(r.parser)]

RECURSIVE PushLoop(_, _)
PushLoop(acc, incoming) ==
    IF incoming = <<>> THEN acc
    ELSE PushLoop(PushByte(acc, Head(incoming)), Tail(incoming))

\* mutant: the literal run left at the end of the chunk is not flushed
FlushDataNever(acc) == acc

\* the trailing flush of OutputBuffer::push (lines 286-288)
FlushData(acc) ==
    IF acc.panic = "none" /\ acc.data_output # <<>>
    THEN [acc EXCEPT !.output = Append(@, Data(acc.data_output)), !.data_output = <<>>]
    ELSE acc

\* mutant: the decoder state is not carried over from the previous call
OutputBufferPushStateless(state, incoming) ==
    FlushData(PushLoop([current_state |-> [tag |-> "Empty"], output |-> <<>>,
                        data_output |-> <<>>, panic |-> "none"], incoming))

\* OutputBuffer::push from decoder state `state`; result is
\* [current_state, output, data_output, panic]
OutputBufferPush(state, incoming) ==
    FlushData(PushLoop([current_state |-> state, output |-> <<>>,
                        data_output |-> <<>>, panic |-> "none"], incoming))

\* ------------------------------------------------------------------ Termion
VARIABLES
    current_state,  \* output_buf.current_state: the decoder's AnsiBuilder
    cursor_pos,     \* <<column, row>>
    buf,            \* the scrollback bytes
    read_result,    \* outcome of this tick's read: "none" before the first tick
    incoming,       \* the chunk of this tick's read (update's local)
    parsed,         \* the events OutputBuffer::push returned for it (update's local)
    panic,          \* "none", or the panic that aborted the process
    seq,            \* decoder harness: the CSI sequence under test
    cut,            \* decoder harness: where the sequence is split
    whole,          \* decoder harness: a decoder fed the sequence in one call
    part,           \* decoder harness: a decoder fed the sequence in two calls
    writer          \* a write loop of update: its buffer, to_write and the descriptor

vars == <<current_state, cursor_pos, buf, read_result, incoming, parsed, panic,
          seq, cut, whole, part, writer>>

appVars == <<current_state, cursor_pos, buf, read_result, incoming, parsed, panic>>
harnessVars == <<seq, cut, whole, part>>

\* no write loop is running
WriterIdle ==
    [caller |-> "none", bytes |-> <<>>, to_write |-> <<>>, fd_bytes |-> <<>>,
     status |-> "idle", err |-> FALSE]

\* a decoder of the harness: OutputBuffer::new() and the events it has returned
FreshDecoder == [calls |-> 0, current_state |-> Empty, events |-> <<>>, panic |-> "none"]

\* Termion::new
TermionNew ==
    /\ current_state = Empty
    /\ cursor_pos = <<0, 0>>
    /\ buf = <<>>
    /\ read_result = "none"
    /\ incoming = <<>>
    /\ parsed = <<>>
    /\ panic = "none"

HarnessIdle ==
    /\ seq = [p1 |-> <<>>, semi |-> FALSE, p2 |-> <<>>, term |-> BYTE_H]
    /\ cut = 0
    /\ whole = FreshDecoder
    /\ part = FreshDecoder

Init == TermionNew /\ HarnessIdle /\ writer = WriterIdle

\* mutant: a newline adds a row but keeps the column
CursorStepKeepColumn(pos, c) ==
    IF c = NL THEN <<pos[1], 1 + pos[2]>> ELSE <<1 + pos[1], pos[2]>>

\* mutant: a newline resets the column but adds no row
CursorStepNoRow(pos, c) ==
    IF c = NL THEN <<0, pos[2]>> ELSE <<1 + pos[1], pos[2]>>

\* the cursor update of one received byte (lines 325-328)
CursorStep(pos, c) ==
    IF c = NL THEN <<0, 1 + pos[2]>> ELSE <<1 + pos[1], pos[2]>>

RECURSIVE CursorLoop(_, _)
CursorLoop(pos, bytes) ==
    IF bytes = <<>> THEN pos
    ELSE CursorLoop(CursorStep(pos, Head(bytes)), Tail(bytes))

\* mutant: the scrollback is overwritten by the new chunk
extend_replaces(content, slice) == slice

\* self.buf.extend_from_slice(incoming) (line 330)
extend_from_slice(content, slice) == content \o slice

RECURSIVE SplitNl(_, _, _)
\* content.split(|b| *b == b'\n'): the segments between newlines, `cur` being
\* the segment under way and `done` the segments completed
SplitNl(content, cur, done) ==
    IF content = <<>> THEN Append(done, cur)
    ELSE IF Head(content) = NL THEN SplitNl(Tail(content), <<>>, Append(done, cur))
    ELSE SplitNl(Tail(content), Append(cur, Head(content)), done)

\* num_lines of char_to_cursor_offset (lines 111-112)
num_lines(content) == Len(SplitNl(content, <<>>, <<>>))

\* the row distance of char_to_cursor_offset, before it is scaled by the
\* character height (line 115)
RowDistance(character_pos, content) == character_pos[2] - num_lines(content)

HasCursorEvent(events) == \E i \in 1..Len(events) : events[i].type = "SetCursorPos"

\* update, read returned Ok(read_size) with read_size > 0
TickData ==
    \E chunk \in Chunks(Min(MaxChunk, MaxBuf - Len(buf))) :
        /\ panic = "none"
        /\ LET r == OutputBufferPush(current_state, chunk)
           IN  /\ read_result' = "data"
               /\ incoming' = chunk
               /\ current_state' = r.current_state
               /\ IF r.panic # "none"
                  THEN /\ panic' = r.panic
                       /\ parsed' = <<>>
                       /\ UNCHANGED <<cursor_pos, buf>>
                  ELSE /\ parsed' = r.output
                       /\ IF HasCursorEvent(r.output)
                          THEN /\ panic' = "set_cursor"
                               /\ UNCHANGED <<cursor_pos, buf>>
                          ELSE /\ panic' = "none"
                               /\ cursor_pos' = CursorLoop(cursor_pos, chunk)
                               /\ buf' = extend_from_slice(buf, chunk)
        /\ UNCHANGED <<harnessVars, writer>>

\* update, read returned Ok(0): "EOF reached", early return
TickEof ==
    /\ panic = "none"
    /\ read_result' = "eof"
    /\ incoming' = <<>>
    /\ parsed' = <<>>
    /\ UNCHANGED <<current_state, cursor_pos, buf, panic>>
    /\ UNCHANGED <<harnessVars, writer>>

\* mutant: a read that would block is treated as a failure that resets the decoder
TickWouldBlockResets ==
    /\ panic = "none"
    /\ read_result' = "eagain"
    /\ incoming' = <<>>
    /\ parsed' = <<>>
    /\ current_state' = Empty
    /\ UNCHANGED <<cursor_pos, buf, panic>>
    /\ UNCHANGED <<harnessVars, writer>>

\* update, read returned Err(EAGAIN)
TickWouldBlock ==
    /\ panic = "none"
    /\ read_result' = "eagain"
    /\ incoming' = <<>>
    /\ parsed' = <<>>
    /\ UNCHANGED <<current_state, cursor_pos, buf, panic>>
    /\ UNCHANGED <<harnessVars, writer>>

\* update, read returned another error: "Read Failed due to"
TickReadError ==
    /\ panic = "none"
    /\ read_result' = "error"
    /\ incoming' = <<>>
    /\ parsed' = <<>>
    /\ UNCHANGED <<current_state, cursor_pos, buf, panic>>
    /\ UNCHANGED <<harnessVars, writer>>

Next == TickData \/ TickEof \/ TickWouldBlock \/ TickReadError

Spec == Init /\ [][Next]_vars

\* ----------------------------------------------------------- decoder harness
\* OutputBuffer::push applied to CSI sequences ESC [ p1 t and ESC [ p1 ; p2 t,
\* once in one call and once split in two calls at `cut`.
HarnessDigits == {DIGIT_0, 49, 53}
HarnessTerms == {BYTE_H, BYTE_J}
DigitStrings == SeqsUpTo(HarnessDigits, MaxDigits)

CsiSeqs ==
    {[p1 |-> d1, semi |-> FALSE, p2 |-> <<>>, term |-> t] :
        d1 \in DigitStrings, t \in HarnessTerms}
    \cup
    {[p1 |-> d1, semi |-> TRUE, p2 |-> d2, term |-> t] :
        d1 \in DigitStrings, d2 \in DigitStrings, t \in HarnessTerms}

\* the bytes of a CSI sequence
CsiBytes(q) ==
    <<ESC, LBRACKET>> \o q.p1 \o (IF q.semi THEN <<SEMI>> \o q.p2 ELSE <<>>) \o <<q.term>>

InitCsi ==
    /\ TermionNew
    /\ seq \in CsiSeqs
    /\ cut \in 1..(Len(CsiBytes(seq)) - 1)
    /\ whole = FreshDecoder
    /\ part = FreshDecoder
    /\ writer = WriterIdle

\* one call of push on a harness decoder: the state is carried, the events collected
Feed(dec, bytes) ==
    LET r == OutputBufferPush(dec.current_state, bytes)
    IN  [calls |-> dec.calls + 1,
         current_state |-> r.current_state,
         events |-> dec.events \o r.output,
         panic |-> r.panic]

FeedWhole ==
    /\ whole.calls = 0
    /\ whole' = Feed(whole, CsiBytes(seq))
    /\ UNCHANGED <<seq, cut, part>>
    /\ UNCHANGED <<appVars, writer>>

FeedFirst ==
    /\ part.calls = 0
    /\ part' = Feed(part, SubSeq(CsiBytes(seq), 1, cut))
    /\ UNCHANGED <<seq, cut, whole>>
    /\ UNCHANGED <<appVars, writer>>

FeedSecond ==
    /\ part.calls = 1
    /\ part.panic = "none"
    /\ part' = Feed(part, SubSeq(CsiBytes(seq), cut + 1, Len(CsiBytes(seq))))
    /\ UNCHANGED <<seq, cut, whole>>
    /\ UNCHANGED <<appVars, writer>>

NextCsi == FeedWhole \/ FeedFirst \/ FeedSecond

SpecCsi == InitCsi /\ [][NextCsi]_vars

\* --------------------------------------------------------------- write loops
\* The two loops of update that write a buffer to the descriptor:
\* the history panel (lines 352-363) and the typed input (lines 419-427).
\* Each iteration is one nix::unistd::write, whose result the kernel decides.
TextBytes == {120, 32}

\* a command of the history: current_command at Enter, kept only if its trim()
\* is not empty (lines 393-395)
Commands ==
    {c \in SeqsUpTo(TextBytes, MaxWrite) : \E i \in 1..Len(c) : c[i] # 32}

\* the buffer a caller hands to its loop: format!("{}\n", cmd) for the
\* history panel; the event's text, "\n" for Enter or "" for the typed input
WriteBuffers(caller) ==
    IF caller = "history" THEN {c \o <<NL>> : c \in Commands}
    ELSE SeqsUpTo(TextBytes, MaxWrite) \cup {<<NL>>}

\* while to_write.len() > 0
LoopStatus(to_write) == IF Len(to_write) > 0 THEN "loop" ELSE "done"

InitWrite ==
    /\ TermionNew
    /\ HarnessIdle
    /\ \E caller \in {"history", "input"} :
         \E bytes \in WriteBuffers(caller) :
            writer = [caller |-> caller, bytes |-> bytes, to_write |-> bytes,
                      fd_bytes |-> <<>>, status |-> LoopStatus(bytes), err |-> FALSE]

\* mutant: a short write is retried with the whole remaining buffer again
\* unless it was complete
AdvanceIfComplete(to_write, written) ==
    IF written = Len(to_write) THEN <<>> ELSE to_write

\* to_write = &to_write[written..]
Advance(to_write, written) == SubSeq(to_write, written + 1, Len(to_write))

\* one iteration whose write returns Ok(written): the descriptor took the
\* first `written` bytes of to_write
WriteOk ==
    /\ panic = "none"
    /\ writer.status = "loop"
    /\ \E written \in 1..Len(writer.to_write) :
         LET rest == Advance(writer.to_write, written)
         IN  writer' = [writer EXCEPT
                           !.fd_bytes = @ \o SubSeq(writer.to_write, 1, written),
                           !.to_write = rest,
                           !.status = LoopStatus(rest)]
    /\ UNCHANGED <<appVars, harnessVars>>

\* one iteration whose write returns Err(e): the history panel prints
\* "Failed to write command to terminal" and breaks; the typed input unwraps
\* the result, which panics
WriteErr ==
    /\ panic = "none"
    /\ writer.status = "loop"
    /\ IF writer.caller = "history"
       THEN /\ writer' = [writer EXCEPT !.status = "failed", !.err = TRUE]
            /\ UNCHANGED panic
       ELSE /\ writer' = [writer EXCEPT !.err = TRUE]
            /\ panic' = "write_unwrap"
    /\ UNCHANGED <<current_state, cursor_pos, buf, read_result, incoming, parsed>>
    /\ UNCHANGED harnessVars

NextWrite == WriteOk \/ WriteErr

SpecWrite == InitWrite /\ [][NextWrite]_vars

\* ------------------------------------------------------------------- claims
Last(s) == s[Len(s)]
NoEsc(bytes) == \A i \in 1..Len(bytes) : bytes[i] # ESC
CountNl(bytes) == Cardinality({i \in 1..Len(bytes) : bytes[i] = NL})
\* the number of bytes after the last newline (all of them when there is none)
AfterLastNl(bytes) ==
    LET nls == {i \in 1..Len(bytes) : bytes[i] = NL}
    IN  IF nls = {} THEN Len(bytes)
        ELSE Len(bytes) - (CHOOSE i \in nls : \A j \in nls : j <= i)
CursorEvents(events) == SelectSeq(events, LAMBDA e : e.type = "SetCursorPos")
HasUnsupported(events) ==
    \E i \in 1..Len(events) : events[i].type = "UnsupportedSequence"
\* the terminators of the set other than 'H': A B C D E F G J K S T f
UnsupportedTerminators == {65, 66, 67, 68, 69, 70, 71, BYTE_J, 75, 83, 84, 102}
\* ESC [ digits terminator or ESC [ digits ; digits terminator, terminator not 'H'
IsUnsupportedCsi(bytes) ==
    /\ Len(bytes) >= 3
    /\ bytes[1] = ESC
    /\ bytes[2] = LBRACKET
    /\ Last(bytes) \in UnsupportedTerminators
    /\ \A i \in 3..(Len(bytes) - 1) : is_ascii_digit(bytes[i]) \/ bytes[i] = SEMI
    /\ Cardinality({i \in 3..(Len(bytes) - 1) : bytes[i] = SEMI}) <= 1
\* byte b is invalid for a decoder in state cs, which is inside an escape sequence
InvalidIn(cs, b) ==
    \/ cs.tag = "Escape" /\ b # LBRACKET
    \/ /\ cs.tag = "Csi"
       /\ cs.parser.state.tag \in {"N", "M"}
       /\ ~is_ascii_digit(b)
       /\ b \notin UnsupportedTerminators \cup {BYTE_H}
       /\ ~(b = SEMI /\ cs.parser.state.tag = "N")
\* the numeric value of a parameter's digit string, 1 when it is empty
ParamOr1(digits) == IF digits = <<>> THEN 1 ELSE ParseUsize(digits)
\* the panics raised inside OutputBuffer::push and CsiParser::push
DecoderPanics == {"escape", "csi_n", "csi_m", "finished", "invalid", "parse"}

\* C1: the decoder is total: whatever chunks are read, feeding them never
\* panics inside OutputBuffer::push / CsiParser::push.
C1_DecoderNeverPanics == panic \notin DecoderPanics

\* C2: a read of escape-free bytes by a decoder in Ground returns exactly one
\* Literal (Data) event holding the whole chunk, and the decoder stays in Ground.
C2_EscapeFreeIsOneLiteral ==
    [][(read_result' = "data" /\ current_state = Empty /\ NoEsc(incoming'))
        => (parsed' = <<Data(incoming')>> /\ current_state' = Empty /\ panic' = "none")]_vars

C2_Witness ==
    /\ read_result = "data"
    /\ buf = incoming
    /\ Len(incoming) >= 3
    /\ NoEsc(incoming)
    /\ \E i \in 1..Len(incoming) : incoming[i] = NL
    /\ parsed = <<Data(incoming)>>
    /\ current_state = Empty

\* C3: a CSI sequence ended by 'H', fed in one call to a decoder in Ground,
\* emits SetCursorPosition with row = value of p1 (1 if empty) and
\* col = value of p2 (1 if empty or absent).
C3_CursorPositionParams ==
    (whole.calls = 1 /\ seq.term = BYTE_H)
        => CursorEvents(whole.events) = <<SetCursorPos(ParamOr1(seq.p1), ParamOr1(seq.p2))>>

\* C4: ESC [ H fed to a decoder in Ground returns SetCursorPosition{row 1, col 1}
\* and the decoder is back in Ground.
C4_HomeDefaultsToOneOne ==
    (whole.calls = 1 /\ CsiBytes(seq) = <<ESC, LBRACKET, BYTE_H>>)
        => /\ CursorEvents(whole.events) = <<SetCursorPos(1, 1)>>
           /\ Last(whole.events) = SetCursorPos(1, 1)
           /\ whole.current_state = Empty
           /\ whole.panic = "none"

C4_Witness ==
    /\ whole.calls = 1
    /\ CsiBytes(seq) = <<ESC, LBRACKET, BYTE_H>>
    /\ Last(whole.events) = SetCursorPos(1, 1)
    /\ whole.current_state = Empty

C7_SplitEqualsWhole ==
    (whole.calls = 1 /\ part.calls = 2)
        => /\ part.events = whole.events
           /\ part.current_state = whole.current_state
           /\ part.panic = whole.panic

C7_Witness ==
    /\ whole.calls = 1
    /\ part.calls = 2
    /\ seq.semi
    /\ seq.p1 # <<>>
    /\ seq.term = BYTE_H
    /\ cut = 3
    /\ part.events # <<>>
    /\ Last(part.events).type = "SetCursorPos"
    /\ part.current_state = Empty

\* C8: when the decoder's last event of a read is SetCursorPosition{row, col},
\* the tracked position becomes that column and row and the process goes on.
C8_SetCursorOverwrites ==
    (read_result = "data" /\ parsed # <<>> /\ Last(parsed).type = "SetCursorPos")
        => (panic = "none" /\ cursor_pos = <<Last(parsed).y, Last(parsed).x>>)

\* C9: literal bytes move the cursor by newline counting: a newline sets the
\* column to 0 and adds one row, any other byte adds one column; so from (0,0)
\* an escape-free history leaves row = number of newlines and column = number
\* of bytes after the last newline.
C9_LiteralCursor ==
    /\ [](NoEsc(buf) => cursor_pos = <<AfterLastNl(buf), CountNl(buf)>>)
    /\ [][(read_result' = "data" /\ current_state = Empty /\ NoEsc(incoming'))
            => cursor_pos' =
                 <<IF CountNl(incoming') = 0 THEN cursor_pos[1] + Len(incoming')
                                             ELSE AfterLastNl(incoming'),
                   cursor_pos[2] + CountNl(incoming')>>]_vars

C9_Witness ==
    /\ read_result = "data"
    /\ NoEsc(buf)
    /\ Len(buf) >= 4
    /\ Len(incoming) >= 2
    /\ cursor_pos = <<1, 2>>

\* C10: a read that is only an unsupported CSI sequence, taken by a decoder in
\* Ground, leaves the tracked cursor position unchanged.
C10_UnsupportedKeepsCursor ==
    [][(read_result' = "data" /\ current_state = Empty /\ IsUnsupportedCsi(incoming'))
        => cursor_pos' = cursor_pos]_vars

\* C11: a zero-length read ends the session: once a tick's read has returned
\* end of file, no later tick reads the descriptor again (so no tick ever has
\* another read outcome).
C11_NoReadAfterEof ==
    [][read_result = "eof" => read_result' = "eof"]_vars

\* C12: the write loop retries a short write with the remaining tail: while
\* every write takes between 1 and all of the remaining bytes, each iteration
\* shortens to_write, the bytes handed to the descriptor followed by to_write
\* are always the buffer, and the loop ends with the descriptor having received
\* exactly the buffer.
C12_WriteAllRetriesTail ==
    /\ [](writer.fd_bytes \o writer.to_write = writer.bytes)
    /\ []((writer.status = "done") => (writer.fd_bytes = writer.bytes /\ ~writer.err))
    /\ []((writer.status = "loop" /\ ~writer.err)
            => (writer.to_write # <<>> /\ ENABLED WriteOk))
    /\ [][(~writer.err') => (writer.to_write' # writer.to_write
                             /\ Len(writer.to_write') < Len(writer.to_write))]_vars

C12_Witness ==
    /\ writer.status = "done"
    /\ writer.caller = "input"
    /\ Len(writer.bytes) >= 3
    /\ writer.fd_bytes = writer.bytes
    /\ writer.bytes[1] # writer.bytes[2]

\* C17: a write that returns an error stops the loop and is an error outcome:
\* whichever loop it happens in, the loop is left as failed and the process
\* has not panicked.
C17_WriteErrorIsNotACrash ==
    writer.err => (writer.status = "failed" /\ panic = "none")

IsPrefix(a, b) == Len(a) <= Len(b) /\ SubSeq(b, 1, Len(a)) = a

\* C13: the scrollback is append-only: every step leaves the previous content
\* as a prefix of the new content, and the number of newline-delimited
\* segments never decreases.
C13_AppendMonotonic ==
    [][IsPrefix(buf, buf') /\ num_lines(buf') >= num_lines(buf)]_vars

C13_Witness ==
    /\ read_result = "data"
    /\ panic = "none"
    /\ incoming # <<>>
    /\ Len(buf) > Len(incoming)
    /\ SubSeq(buf, Len(buf) - Len(incoming) + 1, Len(buf)) = incoming
    /\ num_lines(buf) >= 3

\* C14: a tick whose read would block (EAGAIN) changes neither the scrollback,
\* nor the cursor position, nor the decoder state, does not end the process,
\* and the next tick can read again.
C14_WouldBlockIsNoFailure ==
    /\ [][(read_result' = "eagain")
            => UNCHANGED <<buf, cursor_pos, current_state, panic>>]_vars
    /\ []((read_result = "eagain")
            => (panic = "none" /\ ENABLED TickWouldBlock /\ ENABLED TickEof
                /\ ENABLED TickReadError))

C14_Witness ==
    /\ read_result = "eagain"
    /\ current_state = Escape
    /\ buf # <<>>
    /\ cursor_pos # <<0, 0>>
    /\ panic = "none"

\* C15: push is never called on a CSI parser whose state is Finished or
\* Invalid: no byte is routed to a parser that has completed its sequence
\* (the call the code itself answers with a panic).
C15_FinishedNeverPushed == panic \notin {"finished", "invalid"}

RECURSIVE ConcatData(_)
\* the payloads of the Data events of a list, in order
ConcatData(events) ==
    IF events = <<>> THEN <<>>
    ELSE (IF Head(events).type = "Data" THEN Head(events).bytes ELSE <<>>)
         \o ConcatData(Tail(events))

\* C16: the scrollback holds only literal bytes: a read appends to it exactly
\* the payloads of the Literal (Data) events the decoder returned for the
\* chunk, in order.
C16_ScrollbackOnlyLiterals ==
    [][(read_result' = "data" /\ panic' = "none")
        => buf' = buf \o ConcatData(parsed')]_vars

\* C18: in every reachable state the cursor row is the number of newline
\* bytes in the scrollback (line count - 1), the cursor column is the number
\* of scrollback bytes after the last newline, and the row distance used for
\* the rendering offset (row - line count) is -1.
C18_CursorMatchesScrollback ==
    /\ cursor_pos[2] = CountNl(buf)
    /\ cursor_pos[2] = num_lines(buf) - 1
    /\ cursor_pos[1] = AfterLastNl(buf)
    /\ RowDistance(cursor_pos, buf) = -1

C18_Witness ==
    /\ read_result = "data"
    /\ panic = "none"
    /\ ~NoEsc(buf)
    /\ Len(buf) >= 3
    /\ cursor_pos[2] >= 1
    /\ cursor_pos[1] >= 1

\* C19: every Literal (Data) event returned by push has a non-empty payload.
C19_NoEmptyLiteral ==
    \A i \in 1..Len(parsed) : parsed[i].type = "Data" => parsed[i].bytes # <<>>

====
